---- MODULE Spec2Model ----
(***************************************************************************)
(* Model of the "Slugify Heading as Filename" plugin (src/main.ts).        *)
(*                                                                         *)
(* Text is a sequence of UTF-16 code units (integers), so that the         *)
(* character ranges of the regular expressions in slugify and findHeading  *)
(* are the ranges of the source.  The plugin object, the vault it acts on  *)
(* and the suspended forceRenameFile evaluations are the state.            *)
(***************************************************************************)
EXTENDS Integers, Sequences, FiniteSets, Bags, TLC

(***************************************************************************)
(* Notation: Str(<<"#", " ", "B">>) is the text "# B".  CodeUnit gives the *)
(* UTF-16 code unit of each character the model's texts use.               *)
(***************************************************************************)
CodeUnit(ch) ==
  CASE ch = "LF" -> 10           \* '\n'
    [] ch = "TAB" -> 9
    [] ch = "NBSP" -> 160        \* U+00A0 no-break space
    [] ch = " " -> 32
    [] ch = "!" -> 33
    [] ch = "#" -> 35
    [] ch = "(" -> 40
    [] ch = "-" -> 45
    [] ch = "." -> 46
    [] ch = "/" -> 47
    [] ch = "1" -> 49
    [] ch = ":" -> 58
    [] ch = "=" -> 61
    [] ch = "B" -> 66
    [] ch = "C" -> 67
    [] ch = "D" -> 68
    [] ch = "H" -> 72
    [] ch = "V" -> 86
    [] ch = "a" -> 97
    [] ch = "b" -> 98
    [] ch = "c" -> 99
    [] ch = "d" -> 100
    [] ch = "e" -> 101
    [] ch = "f" -> 102
    [] ch = "g" -> 103
    [] ch = "i" -> 105
    [] ch = "j" -> 106
    [] ch = "l" -> 108
    [] ch = "m" -> 109
    [] ch = "n" -> 110
    [] ch = "o" -> 111
    [] ch = "p" -> 112
    [] ch = "t" -> 116
    [] ch = "u" -> 117
    [] ch = "v" -> 118
    [] ch = "x" -> 120
    [] ch = "a_grave" -> 224          \* U+00E0, a with grave, precomposed
    [] ch = "e_acute" -> 233          \* U+00E9, e with acute, precomposed
    [] ch = "grave" -> 768           \* U+0300 combining grave accent
    [] ch = "acute" -> 769           \* U+0301 combining acute accent
    [] ch = "emdash" -> 8212         \* U+2014 em dash

Str(chars) == [i \in DOMAIN chars |-> CodeUnit(chars[i])]

RECURSIVE Flatten(_)
Flatten(ss) == IF ss = <<>> THEN <<>> ELSE Head(ss) \o Flatten(Tail(ss))

(***************************************************************************)
(* slugify, src/main.ts:211-220, one operator per step of the chain.       *)
(***************************************************************************)

\* String.prototype.normalize('NFKD') on one code unit: the compatibility
\* decomposition of the characters with one, every other character as it is.
Decompose(c) ==
  CASE c = 224 -> <<97, 768>>
    [] c = 233 -> <<101, 769>>
    [] c = 160 -> <<32>>
    [] OTHER -> <<c>>

NormalizeNFKD(text) == Flatten([i \in DOMAIN text |-> Decompose(text[i])])

\* .replace(/[\u0300-\u036f]/g, '')
IsCombiningMark(c) == c >= 768 /\ c <= 879
StripMarks(text) == SelectSeq(text, LAMBDA c : ~IsCombiningMark(c))

\* WhiteSpace and LineTerminator of the language, as trim() and \s use them
\* (restricted to the code units CodeUnit names, plus the ASCII controls).
IsWhiteSpace(c) == c \in {9, 10, 11, 12, 13, 32, 160}

RECURSIVE TrimStart(_)
TrimStart(text) ==
  IF text # <<>> /\ IsWhiteSpace(Head(text)) THEN TrimStart(Tail(text)) ELSE text

RECURSIVE TrimEnd(_)
TrimEnd(text) ==
  IF text # <<>> /\ IsWhiteSpace(text[Len(text)])
  THEN TrimEnd(SubSeq(text, 1, Len(text) - 1))
  ELSE text

Trim(text) == TrimEnd(TrimStart(text))

\* .toLowerCase(): A-Z to a-z.  After NFKD and the removal of the marks no
\* other character lower-cases to an ASCII one, so the rest is left as it is
\* (the next step removes it either way).
LowerUnit(c) == IF c >= 65 /\ c <= 90 THEN c + 32 ELSE c
ToLowerCase(text) == [i \in DOMAIN text |-> LowerUnit(text[i])]

\* .replace(/[^a-z0-9 -]/g, '')
IsSlugUnit(c) == (c >= 97 /\ c <= 122) \/ (c >= 48 /\ c <= 57) \/ c = 32 \/ c = 45
KeepSlugUnits(text) == SelectSeq(text, IsSlugUnit)

\* .replace(/\s+/g, '-'): every maximal run of white space becomes one hyphen.
RECURSIVE SpacesToHyphen(_)
SpacesToHyphen(text) ==
  IF text = <<>> THEN <<>>
  ELSE IF IsWhiteSpace(Head(text))
       THEN <<45>> \o SpacesToHyphen(TrimStart(Tail(text)))
       ELSE <<Head(text)>> \o SpacesToHyphen(Tail(text))

\* .replace(/-+/g, '-'): every maximal run of hyphens becomes one hyphen.
RECURSIVE CollapseHyphens(_)
CollapseHyphens(text) ==
  IF text = <<>> THEN <<>>
  ELSE IF Head(text) = 45 /\ Len(text) > 1 /\ text[2] = 45
       THEN CollapseHyphens(Tail(text))
       ELSE <<Head(text)>> \o CollapseHyphens(Tail(text))

\* The same chain without the normalize('NFKD') step.
slugifyNoNormalize(text) ==
  CollapseHyphens(SpacesToHyphen(KeepSlugUnits(ToLowerCase(Trim(
    StripMarks(text))))))

slugify(text) ==
  CollapseHyphens(SpacesToHyphen(KeepSlugUnits(ToLowerCase(Trim(
    StripMarks(NormalizeNFKD(text)))))))

(***************************************************************************)
(* Heading extraction, src/main.ts:137-139, 162-206.  Line indices are the *)
(* zero-based indices of the source; line i is lines[i + 1].               *)
(***************************************************************************)

\* data.split('\n')
RECURSIVE SplitLines(_)
SplitLines(data) ==
  IF \E i \in DOMAIN data : data[i] = 10
  THEN LET i == CHOOSE k \in DOMAIN data :
                  data[k] = 10 /\ \A m \in 1..(k - 1) : data[m] # 10
       IN <<SubSeq(data, 1, i - 1)>> \o SplitLines(SubSeq(data, i + 1, Len(data)))
  ELSE <<data>>

\* lines.join('\n'), the inverse, to write documents down.
RECURSIVE JoinLines(_)
JoinLines(lines) ==
  IF Len(lines) = 0 THEN <<>>
  ELSE IF Len(lines) = 1 THEN lines[1]
  ELSE lines[1] \o <<10>> \o JoinLines(Tail(lines))

Line(fileLines, i) == fileLines[i + 1]
Dashes == <<45, 45, 45>>

\* the loop of findNoteStart from index i on
RECURSIVE FrontmatterEnd(_, _)
FrontmatterEnd(fileLines, i) ==
  IF i >= Len(fileLines) THEN 0
  ELSE IF Line(fileLines, i) = Dashes THEN i + 1
  ELSE FrontmatterEnd(fileLines, i + 1)

\* findNoteStart skipping the test of the first line
findNoteStartAnyFirstLine(fileLines) == FrontmatterEnd(fileLines, 1)

findNoteStart(fileLines) ==
  IF Len(fileLines) > 0 /\ Line(fileLines, 0) = Dashes
  THEN FrontmatterEnd(fileLines, 1)
  ELSE 0

\* fileLines[i].startsWith('# ')
StartsWithHashSpace(line) == Len(line) >= 2 /\ line[1] = 35 /\ line[2] = 32

\* fileLines[i].match(/^=+$/) !== null
IsUnderline(line) == Len(line) >= 1 /\ \A k \in DOMAIN line : line[k] = 61

NoHeading == [found |-> FALSE]

\* findHeading testing the underline of a line before its '# ' prefix
RECURSIVE findHeadingUnderlineFirst(_, _)
findHeadingUnderlineFirst(fileLines, startLine) ==
  IF startLine >= Len(fileLines) THEN NoHeading
  ELSE IF startLine + 1 < Len(fileLines) /\ IsUnderline(Line(fileLines, startLine + 1))
       THEN [found |-> TRUE, lineNumber |-> startLine,
             text |-> Line(fileLines, startLine), style |-> "Underline"]
  ELSE IF StartsWithHashSpace(Line(fileLines, startLine))
       THEN [found |-> TRUE, lineNumber |-> startLine,
             text |-> SubSeq(Line(fileLines, startLine), 3, Len(Line(fileLines, startLine))),
             style |-> "Prefix"]
  ELSE findHeadingUnderlineFirst(fileLines, startLine + 1)

RECURSIVE findHeading(_, _)
findHeading(fileLines, startLine) ==
  IF startLine >= Len(fileLines) THEN NoHeading
  ELSE IF StartsWithHashSpace(Line(fileLines, startLine))
       THEN [found |-> TRUE, lineNumber |-> startLine,
             text |-> SubSeq(Line(fileLines, startLine), 3, Len(Line(fileLines, startLine))),
             style |-> "Prefix"]
  ELSE IF startLine + 1 < Len(fileLines) /\ IsUnderline(Line(fileLines, startLine + 1))
       THEN [found |-> TRUE, lineNumber |-> startLine,
             text |-> Line(fileLines, startLine), style |-> "Underline"]
  ELSE findHeading(fileLines, startLine + 1)

(***************************************************************************)
(* Paths.  A TFile of the host has path, name, basename, extension and     *)
(* parent; the model keeps the path and derives the rest from it, as the   *)
(* host does when it sets a file's path.                                   *)
(***************************************************************************)
LastIndexOf(text, c) ==
  IF \E i \in DOMAIN text : text[i] = c
  THEN CHOOSE i \in DOMAIN text :
         text[i] = c /\ \A k \in (i + 1)..Len(text) : text[k] # c
  ELSE 0

FileName(path) == SubSeq(path, LastIndexOf(path, 47) + 1, Len(path))
ParentPath(path) == SubSeq(path, 1, LastIndexOf(path, 47) - 1)
BaseName(path) ==
  LET name == FileName(path)
      dot == LastIndexOf(name, 46)
  IN IF dot > 1 THEN SubSeq(name, 1, dot - 1) ELSE name
Extension(path) ==
  LET name == FileName(path)
      dot == LastIndexOf(name, 46)
  IN IF dot > 1 THEN SubSeq(name, dot + 1, Len(name)) ELSE <<>>

Md == Str(<<"m", "d">>)

(***************************************************************************)
(* The vault of the model: two notes and a picture in the folder "n", and  *)
(* the documents an edit can leave in a note.                              *)
(***************************************************************************)
FileIds == {1, 2, 3}
EditedFiles == {1}   \* the notes whose text the edits of the model change
NoFile == 0          \* getActiveFile() === null
Folder == 4          \* a TAbstractFile that is no TFile

InitialPath(f) ==
  CASE f = 1 -> Str(<<"n", "/", "a", ".", "m", "d">>)
    [] f = 2 -> Str(<<"n", "/", "b", ".", "m", "d">>)
    [] f = 3 -> Str(<<"n", "/", "p", ".", "p", "n", "g">>)

DocA == Str(<<"#", " ", "a">>)
DocB == Str(<<"#", " ", "B">>)
DocC == JoinLines(<<Dashes, Str(<<"t", ":", " ", "x">>), Dashes, Str(<<"C">>), Str(<<"=", "=">>)>>)
DocPlain == Str(<<"x">>)
DocBang == Str(<<"#", " ", "!", "!">>)
DocDashes == Str(<<"#", " ", "-", "-", "-">>)
Docs == {DocB, DocC, DocPlain, DocBang, DocDashes}
SavedTexts == Docs \cup {DocA}

\* The values of includeRegex the model draws from: no rule, a rule matching
\* the folder, a rule matching one file name, and an ill-formed pattern.
PatNone == <<>>
PatFolder == Str(<<"n", "/">>)
PatA == Str(<<"a", ".">>)
PatBad == Str(<<"(">>)
Patterns == {PatNone, PatFolder, PatA, PatBad}

\* new RegExp(p) does not throw.  The patterns are sequences of literal
\* characters, except that '(' opens a group that nothing closes.
RegExpValid(p) == \A i \in DOMAIN p : p[i] # 40

\* reg.exec(path) !== null for a pattern of literal characters ('.' matches
\* any character): the pattern occurs somewhere in the path.
UnitMatches(pc, c) == pc = 46 \/ pc = c
RegExpExec(p, path) ==
  \E s \in 0..(Len(path) - Len(p)) :
    \A k \in DOMAIN p : UnitMatches(p[k], path[s + k])

VARIABLES
  files,               \* FileIds -> the path of the TFile
  content,             \* FileIds -> the text vault.read resolves with
  activeFile,          \* workspace.getActiveFile()
  settings,            \* this.settings
  excluded,            \* the files isExcluded(app, file) holds of
  isRenameInProgress,  \* this.isRenameInProgress
  evals,               \* the bag of the suspended forceRenameFile evaluations
  log,                 \* the outcomes of the evaluations an observer recorded
  probe                \* the call of a pure function under test and its result

vars == <<files, content, activeFile, settings, excluded, isRenameInProgress,
          evals, log, probe>>
pluginVars == <<files, content, activeFile, settings, excluded,
                isRenameInProgress, evals>>

\* forceRenameFile evaluations suspended at one time, at most
MaxPending == 2
\* forceRenameFile evaluations the observer of SyncSpec records
MaxRuns == 2
\* paths settings.includedFiles holds at most
MaxIncluded == 1

DEFAULT_SETTINGS ==
  [includedFiles |-> {}, includeRegex |-> <<>>,
   useFileOpenHook |-> TRUE, useFileSaveHook |-> TRUE]

NoProbe == [fn |-> "none"]

\* import { isExcluded } from './exclusions'
isExcluded(file) == file \in excluded

(***************************************************************************)
(* fileIsIncluded, src/main.ts:82-104.  The result is the value returned:  *)
(* "true", "false", or "undefined" for the bare return of line 96.         *)
(***************************************************************************)
\* fileIsIncluded without the test of includedFiles
fileIsIncludedRegexOnly(file, path) ==
  IF isExcluded(file) THEN "true"
  ELSE IF settings.includeRegex = <<>> THEN "undefined"
  ELSE IF ~RegExpValid(settings.includeRegex) THEN "false"
  ELSE IF RegExpExec(settings.includeRegex, path) THEN "true"
  ELSE "false"

fileIsIncluded(file, path) ==
  IF isExcluded(file) THEN "true"
  ELSE IF path \in settings.includedFiles THEN "true"
  ELSE IF settings.includeRegex = <<>> THEN "undefined"
  ELSE IF ~RegExpValid(settings.includeRegex) THEN "false"
  ELSE IF RegExpExec(settings.includeRegex, path) THEN "true"
  ELSE "false"

Truthy(v) == v = "true"

\* handleRenameFile, src/main.ts:111-133: whether it reaches forceRenameFile
handleRenameFileCalls(file) ==
  /\ file \in FileIds
  /\ Extension(files[file]) = Md
  /\ activeFile = file
  /\ Truthy(fileIsIncluded(file, files[file]))

(***************************************************************************)
(* forceRenameFile, src/main.ts:135-154.                                   *)
(***************************************************************************)
\* the heading forceRenameFile works with, lines 137-139
HeadingOf(data) ==
  LET lines == SplitLines(data)
  IN findHeading(lines, findNoteStart(lines))

\* the condition of lines 144-147 comparing the file name with the raw heading
ShouldRenameRawHeading(path, heading) ==
  /\ heading.found
  /\ Len(slugify(heading.text)) > 0
  /\ slugify(BaseName(path)) # heading.text

\* the condition of lines 141 and 144-147
ShouldRename(path, heading) ==
  /\ heading.found
  /\ Len(slugify(heading.text)) > 0
  /\ slugify(BaseName(path)) # slugify(heading.text)

\* line 148
NewPath(path, heading) ==
  ParentPath(path) \o <<47>> \o slugify(heading.text) \o <<46>> \o Md

\* An evaluation is suspended at the vault.read of line 136 or at the
\* renameFile of line 150, where it holds the newPath of line 148.
Reading(file) == [file |-> file, pc |-> "read", newPath |-> <<>>]
Renaming(file, newPath) == [file |-> file, pc |-> "rename", newPath |-> newPath]
One(e) == SetToBag({e})
Suspended == BagToSet(evals)

\* the call itself: vault.read(file) is pending
CanStart == BagCardinality(evals) < MaxPending
StartEval(file) == evals' = evals (+) One(Reading(file))

NoPending == evals = EmptyBag
\* the renameFile calls in flight
RenamesInFlight(pending) ==
  BagCardinality([e \in {x \in BagToSet(pending) : x.pc = "rename"} |-> pending[e]])

(***************************************************************************)
(* The events of the host and the handlers onload registers for them.      *)
(***************************************************************************)
\* vault 'modify' (lines 46-52): the note was saved with text data
Modify(file, data) ==
  /\ file \in FileIds \ EditedFiles => data = content[file]
  /\ content' = IF file \in FileIds THEN [content EXCEPT ![file] = data] ELSE content
  /\ IF settings.useFileSaveHook /\ handleRenameFileCalls(file)
     THEN CanStart /\ StartEval(file)
     ELSE UNCHANGED evals
  /\ UNCHANGED <<files, activeFile, settings, excluded, isRenameInProgress, probe>>

\* workspace 'file-open': onload registers no handler for it
FileOpen(file) ==
  /\ file \in FileIds
  /\ activeFile # file
  /\ activeFile' = file
  /\ UNCHANGED <<files, content, settings, excluded, isRenameInProgress, evals, probe>>

\* command 'Slugify Heading as Filename' (lines 74-79) in a markdown view
SlugifyCommand ==
  /\ activeFile \in FileIds
  /\ Extension(files[activeFile]) = Md
  /\ CanStart
  /\ StartEval(activeFile)
  /\ UNCHANGED <<files, content, activeFile, settings, excluded, isRenameInProgress, probe>>

\* command 'Include current file' (lines 56-72)
IncludeCommand ==
  /\ activeFile \in FileIds
  /\ Cardinality(settings.includedFiles \cup {files[activeFile]}) <= MaxIncluded
  /\ settings' = [settings EXCEPT !.includedFiles = @ \cup {files[activeFile]}]
  /\ UNCHANGED <<files, content, activeFile, excluded, isRenameInProgress, evals, probe>>

\* the Delete button of a manually included file (lines 340-349)
DeleteIncluded(key) ==
  /\ key \in settings.includedFiles
  /\ settings' = [settings EXCEPT !.includedFiles = @ \ {key}]
  /\ UNCHANGED <<files, content, activeFile, excluded, isRenameInProgress, evals, probe>>

\* the 'Include Regex Rule' text field (lines 280-295)
SetIncludeRegex(value) ==
  /\ settings' = [settings EXCEPT
                    !.includeRegex = IF RegExpValid(value) THEN value ELSE <<>>]
  /\ settings' # settings
  /\ UNCHANGED <<files, content, activeFile, excluded, isRenameInProgress, evals, probe>>

\* the 'Use File Open Hook' toggle (lines 297-309)
ToggleOpenHook ==
  /\ settings' = [settings EXCEPT !.useFileOpenHook = ~@]
  /\ UNCHANGED <<files, content, activeFile, excluded, isRenameInProgress, evals, probe>>

\* the 'Use File Save Hook' toggle (lines 311-323)
ToggleSaveHook ==
  /\ settings' = [settings EXCEPT !.useFileSaveHook = ~@]
  /\ UNCHANGED <<files, content, activeFile, excluded, isRenameInProgress, evals, probe>>

(***************************************************************************)
(* The continuations of forceRenameFile.                                   *)
(***************************************************************************)
\* vault.read resolves with the text the note has then, and the callback
\* runs up to the await of line 150
ReadResolve(e) ==
  /\ e \in Suspended
  /\ e.pc = "read"
  /\ LET heading == HeadingOf(content[e.file])
     IN IF ShouldRename(files[e.file], heading)
        THEN /\ evals' = (evals (-) One(e))
                            (+) One(Renaming(e.file, NewPath(files[e.file], heading)))
             /\ isRenameInProgress' = TRUE
        ELSE /\ evals' = evals (-) One(e)
             /\ UNCHANGED isRenameInProgress
  /\ UNCHANGED <<files, content, activeFile, settings, excluded, probe>>

\* vault.read rejects: the callback never runs
ReadReject(e) ==
  /\ e \in Suspended
  /\ e.pc = "read"
  /\ evals' = evals (-) One(e)
  /\ UNCHANGED <<files, content, activeFile, settings, excluded, isRenameInProgress, probe>>

PathExists(path) == \E f \in FileIds : files[f] = path

\* fileManager.renameFile resolves: the file has its new path; line 151
RenameResolve(e) ==
  /\ e \in Suspended
  /\ e.pc = "rename"
  /\ ~PathExists(e.newPath)
  /\ files' = [files EXCEPT ![e.file] = e.newPath]
  /\ isRenameInProgress' = FALSE
  /\ evals' = evals (-) One(e)
  /\ UNCHANGED <<content, activeFile, settings, excluded, probe>>

\* fileManager.renameFile rejects (the target exists, or the storage fails):
\* the await of line 150 throws and line 151 is not reached
RenameReject(e) ==
  /\ e \in Suspended
  /\ e.pc = "rename"
  /\ evals' = evals (-) One(e)
  /\ UNCHANGED <<files, content, activeFile, settings, excluded, isRenameInProgress, probe>>

(***************************************************************************)
(* Spec: the plugin after onload, in a vault whose notes carry their       *)
(* headings, under every interleaving of the host's events with the        *)
(* continuations of the suspended evaluations.                             *)
(***************************************************************************)
InitialContent == [f \in FileIds |-> IF f = 1 THEN DocA ELSE IF f = 2 THEN DocB ELSE <<>>]

Init ==
  /\ files = [f \in FileIds |-> InitialPath(f)]
  /\ content = InitialContent
  /\ activeFile = NoFile
  /\ settings \in {[DEFAULT_SETTINGS EXCEPT !.includeRegex = p] : p \in {PatNone, PatFolder}}
  /\ excluded = {}
  /\ isRenameInProgress = FALSE
  /\ evals = EmptyBag
  /\ log = <<>>
  /\ probe = NoProbe

Next ==
  \/ \E file \in FileIds \cup {Folder}, data \in SavedTexts :
       Modify(file, data) /\ UNCHANGED log
  \/ \E file \in FileIds : FileOpen(file) /\ UNCHANGED log
  \/ SlugifyCommand /\ UNCHANGED log
  \/ ToggleOpenHook /\ UNCHANGED log
  \/ ToggleSaveHook /\ UNCHANGED log
  \/ \E e \in Suspended : ReadResolve(e) /\ UNCHANGED log
  \/ \E e \in Suspended : ReadReject(e) /\ UNCHANGED log
  \/ \E e \in Suspended : RenameResolve(e) /\ UNCHANGED log
  \/ \E e \in Suspended : RenameReject(e) /\ UNCHANGED log

Spec == Init /\ [][Next]_vars

(***************************************************************************)
(* SyncSpec: 'Slugify Heading as Filename' run on note 1 again and again,  *)
(* each run to completion before the next, the text of the note unchanged. *)
(* The observer appends the outcome of each run to log.                    *)
(***************************************************************************)
SyncPaths ==
  {Str(<<"n", "/", "a", ".", "m", "d">>), Str(<<"n", "/", "c", ".", "m", "d">>),
   Str(<<"n", "/", "C", ".", "m", "d">>), Str(<<"n", "/", "-", ".", "m", "d">>)}

SyncInit ==
  /\ files \in {[f \in FileIds |-> IF f = 1 THEN p ELSE InitialPath(f)] : p \in SyncPaths}
  /\ content \in {[InitialContent EXCEPT ![1] = d] : d \in SavedTexts}
  /\ activeFile = 1
  /\ settings = DEFAULT_SETTINGS
  /\ excluded = {}
  /\ isRenameInProgress = FALSE
  /\ evals = EmptyBag
  /\ log = <<>>
  /\ probe = NoProbe

SyncRun ==
  /\ NoPending
  /\ Len(log) < MaxRuns
  /\ SlugifyCommand
  /\ UNCHANGED log

SyncReadResolve(e) ==
  /\ ReadResolve(e)
  /\ log' = IF evals' = EmptyBag THEN Append(log, [outcome |-> "unchanged"]) ELSE log

SyncReadReject(e) ==
  /\ ReadReject(e)
  /\ log' = Append(log, [outcome |-> "readFailed"])

SyncRenameResolve(e) ==
  /\ RenameResolve(e)
  /\ log' = Append(log, [outcome |-> "renamed"])

SyncRenameReject(e) ==
  /\ RenameReject(e)
  /\ log' = Append(log, [outcome |-> "renameFailed"])

SyncNext ==
  \/ SyncRun
  \/ \E e \in Suspended : SyncReadResolve(e)
  \/ \E e \in Suspended : SyncReadReject(e)
  \/ \E e \in Suspended : SyncRenameResolve(e)
  \/ \E e \in Suspended : SyncRenameReject(e)

SyncSpec == SyncInit /\ [][SyncNext]_vars

(***************************************************************************)
(* EditSpec: note 1 is open; the user sets the inclusion rules and saves   *)
(* one edit of the note after another, each after the evaluation of the    *)
(* one before has ended; every rename the storage can do succeeds.  The    *)
(* observer records the settings and the inclusion at the first save.      *)
(***************************************************************************)
IncludedByRule(path) ==
  \/ path \in settings.includedFiles
  \/ /\ settings.includeRegex # <<>>
     /\ RegExpValid(settings.includeRegex)
     /\ RegExpExec(settings.includeRegex, path)

EditInit ==
  /\ files = [f \in FileIds |-> InitialPath(f)]
  /\ content = InitialContent
  /\ activeFile = 1
  /\ settings = DEFAULT_SETTINGS
  /\ excluded = {}
  /\ isRenameInProgress = FALSE
  /\ evals = EmptyBag
  /\ log = <<>>
  /\ probe = NoProbe

EditSave(data) ==
  /\ NoPending
  /\ Modify(1, data)
  /\ log' = IF log = <<>>
            THEN <<[settings |-> settings, included |-> IncludedByRule(files[1])]>>
            ELSE log

EditNext ==
  \/ \E data \in SavedTexts : EditSave(data)
  \/ IncludeCommand /\ UNCHANGED log
  \/ \E key \in settings.includedFiles : DeleteIncluded(key) /\ UNCHANGED log
  \/ \E value \in Patterns : SetIncludeRegex(value) /\ UNCHANGED log
  \/ \E e \in Suspended : ReadResolve(e) /\ UNCHANGED log
  \/ \E e \in Suspended : RenameResolve(e) /\ UNCHANGED log

EditSpec == EditInit /\ [][EditNext]_vars

(***************************************************************************)
(* The pure functions, each applied to inputs drawn from bounded sets.     *)
(***************************************************************************)
RECURSIVE SeqsUpTo(_, _)
SeqsUpTo(S, n) ==
  IF n = 0 THEN {<<>>}
  ELSE LET shorter == SeqsUpTo(S, n - 1)
       IN shorter \cup {Append(q, x) : q \in shorter, x \in S}

PluginAtRest ==
  /\ files = [f \in FileIds |-> InitialPath(f)]
  /\ content = InitialContent
  /\ activeFile = NoFile
  /\ isRenameInProgress = FALSE
  /\ evals = EmptyBag
  /\ log = <<>>

\* slugify
MaxText == 3
SlugUnits == {Str(<<c>>)[1] : c \in {"a", "B", "1", " ", "-", "!", "e_acute", "acute", "NBSP"}}
Cafe ==
  Str(<<"C", "a", "f", "e_acute", " ", "emdash", " ",
        "D", "e_acute", "j", "a_grave", " ", "V", "u">>)
SlugTexts == SeqsUpTo(SlugUnits, MaxText) \cup {Cafe}

SlugInit ==
  /\ PluginAtRest
  /\ settings = DEFAULT_SETTINGS
  /\ excluded = {}
  /\ probe \in {[fn |-> "input", text |-> t] : t \in SlugTexts}

ApplySlugify ==
  /\ probe.fn = "input"
  /\ probe' = [fn |-> "slugify", text |-> probe.text, result |-> slugify(probe.text)]
  /\ UNCHANGED pluginVars
  /\ UNCHANGED log

SlugNext == ApplySlugify
SlugSpec == SlugInit /\ [][SlugNext]_vars

\* findNoteStart and findHeading
MaxLines == 3
LineTexts ==
  {Dashes, Str(<<"#", " ", "H">>), Str(<<"=", "=">>), Str(<<"H">>), <<>>}
FrontmatterExample ==
  <<Dashes, Str(<<"t", ":", " ", "x">>), Dashes, Str(<<"#", " ", "H", "e", "l", "l", "o">>)>>
LineSeqs == SeqsUpTo(LineTexts, MaxLines) \cup {FrontmatterExample}

HeadingInit ==
  /\ PluginAtRest
  /\ settings = DEFAULT_SETTINGS
  /\ excluded = {}
  /\ probe \in {[fn |-> "input", lines |-> l] : l \in LineSeqs}

ApplyFindNoteStart ==
  /\ probe.fn = "input"
  /\ probe' = [fn |-> "findNoteStart", lines |-> probe.lines,
               result |-> findNoteStart(probe.lines)]
  /\ UNCHANGED pluginVars
  /\ UNCHANGED log

ApplyFindHeading(start) ==
  /\ probe.fn = "input"
  /\ probe' = [fn |-> "findHeading", lines |-> probe.lines, start |-> start,
               result |-> findHeading(probe.lines, start)]
  /\ UNCHANGED pluginVars
  /\ UNCHANGED log

\* lines 137-139 on the text whose lines are probe.lines
ApplyHeadingOf ==
  /\ probe.fn = "input"
  /\ Len(probe.lines) > 0
  /\ probe' = [fn |-> "HeadingOf", lines |-> probe.lines,
               result |-> HeadingOf(JoinLines(probe.lines))]
  /\ UNCHANGED pluginVars
  /\ UNCHANGED log

HeadingNext ==
  \/ ApplyFindNoteStart
  \/ \E start \in 0..Len(probe.lines) : ApplyFindHeading(start)
  \/ ApplyHeadingOf

HeadingSpec == HeadingInit /\ [][HeadingNext]_vars

\* fileIsIncluded
InclInit ==
  /\ PluginAtRest
  /\ settings \in {[DEFAULT_SETTINGS EXCEPT !.includeRegex = p, !.includedFiles = inc] :
                     p \in Patterns,
                     inc \in {x \in SUBSET {InitialPath(f) : f \in FileIds} :
                                Cardinality(x) <= MaxIncluded}}
  /\ excluded \in SUBSET {1, 2}
  /\ probe = [fn |-> "input"]

ApplyFileIsIncluded(file) ==
  /\ probe.fn = "input"
  /\ probe' = [fn |-> "fileIsIncluded", file |-> file, path |-> files[file],
               result |-> fileIsIncluded(file, files[file])]
  /\ UNCHANGED pluginVars
  /\ UNCHANGED log

InclNext == \E file \in FileIds : ApplyFileIsIncluded(file)
InclSpec == InclInit /\ [][InclNext]_vars

(***************************************************************************)
(* The claims.                                                             *)
(***************************************************************************)

\* C1: at most one external rename call is in flight at any moment, under
\* every interleaving of modify events and command invocations.
C1_OneRenameInFlight == RenamesInFlight(evals) <= 1

\* C2: in every state where no rename call is outstanding, isRenameInProgress
\* is false: the flag is set back when the rename completes, succeed or fail.
C2_IdleWhenNoRenameOutstanding == RenamesInFlight(evals) = 0 => ~isRenameInProgress

Issued(entry) == entry.outcome \in {"renamed", "renameFailed"}
Last(q) == q[Len(q)]
SlugOfHeading(f) == slugify(HeadingOf(content[f]).text)

\* what C3 says of the file once a run's rename has succeeded
SyncedAfterRename ==
  (log # <<>> /\ Last(log).outcome = "renamed" /\ NoPending) =>
    /\ BaseName(files[1]) = SlugOfHeading(1)
    /\ slugify(BaseName(files[1])) = SlugOfHeading(1)

C4_StaysSynchronized ==
  ( /\ log # <<>>
    /\ log[1].included
    /\ settings = log[1].settings
    /\ settings.useFileSaveHook
    /\ activeFile = 1
    /\ NoPending
    /\ HeadingOf(content[1]).found
    /\ Len(SlugOfHeading(1)) > 0 )
  => slugify(BaseName(files[1])) = SlugOfHeading(1)

\* the decision C5 states for the evaluation e reading the current text and
\* path of its file: the rename is called, once and with the path
\* '{parent path}/{targetSlug}.md', exactly when a heading is found, its slug
\* is not empty and differs from the slug of the basename.
DecisionAsClaimed(e) ==
  LET f == e.file
      heading == HeadingOf(content[f])
      wanted == /\ heading.found
                /\ slugify(heading.text) # <<>>
                /\ slugify(heading.text) # slugify(BaseName(files[f]))
      target == ParentPath(files[f]) \o Str(<<"/">>) \o slugify(heading.text)
                  \o Str(<<".", "m", "d">>)
  IN /\ wanted =>
          /\ evals' = (evals (-) One(e)) (+) One(Renaming(f, target))
          /\ RenamesInFlight(evals') = RenamesInFlight(evals) + 1
     /\ ~wanted =>
          /\ evals' = evals (-) One(e)
          /\ RenamesInFlight(evals') = RenamesInFlight(evals)

HeadingIsDashes(e) ==
  LET heading == HeadingOf(content[e.file])
  IN heading.found /\ heading.text = Dashes

\* C5 as stated: the rename decision of one evaluation, with heading text
\* '---' among the cases of an empty slug, where no rename is invoked.
C5_RenameDecisionDashesEmpty ==
  [][\A e \in Suspended : ReadResolve(e) =>
       /\ DecisionAsClaimed(e)
       /\ HeadingIsDashes(e) => RenamesInFlight(evals') = RenamesInFlight(evals)]_vars

\* C5 as amended: the rename decision of one evaluation; heading text '---'
\* has the slug '-', which is not empty, so the rename to '{parent path}/-.md'
\* is invoked unless the basename's slug is '-' too.
C5_RenameDecision ==
  [][\A e \in Suspended : ReadResolve(e) =>
       /\ DecisionAsClaimed(e)
       /\ (HeadingIsDashes(e) /\ slugify(BaseName(files[e.file])) # Str(<<"-">>))
            => \E r \in BagToSet(evals') :
                 /\ r = Renaming(e.file, r.newPath)
                 /\ FileName(r.newPath) = Str(<<"-", ".", "m", "d">>)
                 /\ CopiesIn(r, evals') = CopiesIn(r, evals) + 1]_vars

C5_Witness ==
  \E e \in Suspended :
    /\ e.pc = "rename"
    /\ content[e.file] = DocDashes
    /\ e.newPath = Str(<<"n", "/", "-", ".", "m", "d">>)

\* C6: fileIsIncluded(file, path) is truthy exactly when isExcluded holds of
\* the file, or path is a key of includedFiles, or includeRegex is non-empty,
\* well-formed and matches path; it returns (never throws) in every case.
C6_FileIsIncluded ==
  probe.fn = "fileIsIncluded" =>
    /\ probe.result \in {"true", "false", "undefined"}
    /\ Truthy(probe.result) <=>
         \/ probe.file \in excluded
         \/ probe.path \in settings.includedFiles
         \/ /\ settings.includeRegex # <<>>
            /\ RegExpValid(settings.includeRegex)
            /\ RegExpExec(settings.includeRegex, probe.path)

C6_Witness ==
  /\ probe.fn = "fileIsIncluded"
  /\ probe.path \in settings.includedFiles
  /\ probe.file \notin excluded
  /\ settings.includeRegex = PatA
  /\ ~RegExpExec(PatA, probe.path)
  /\ probe.result = "true"

\* the lines C7 counts as a match: line i begins with '# ', or line i+1
\* exists and is made of one or more '='
BeginsHashSpace(lines, i) ==
  Len(lines[i + 1]) >= 2 /\ SubSeq(lines[i + 1], 1, 2) = Str(<<"#", " ">>)
UnderlinedAt(lines, i) ==
  /\ i + 1 < Len(lines)
  /\ lines[i + 2] # <<>>
  /\ \A k \in 1..Len(lines[i + 2]) : lines[i + 2][k] = Str(<<"=">>)[1]
MatchLines(lines, start) ==
  {i \in start..(Len(lines) - 1) : BeginsHashSpace(lines, i) \/ UnderlinedAt(lines, i)}

\* C7: findHeading(lines, start) returns the match at the lowest line index
\* i >= start; Prefix style with the text after '# ' when line i begins with
\* '# ', even if line i+1 is an underline, else Underline style with line i
\* verbatim; none exactly when there is no such i.
C7_FindHeading ==
  probe.fn = "findHeading" =>
    LET m == MatchLines(probe.lines, probe.start)
        r == probe.result
    IN /\ r.found <=> m # {}
       /\ r.found =>
            /\ r.lineNumber \in m
            /\ \A i \in m : r.lineNumber <= i
            /\ IF BeginsHashSpace(probe.lines, r.lineNumber)
               THEN /\ r.style = "Prefix"
                    /\ Str(<<"#", " ">>) \o r.text = probe.lines[r.lineNumber + 1]
               ELSE /\ r.style = "Underline"
                    /\ r.text = probe.lines[r.lineNumber + 1]

C7_Witness ==
  /\ probe.fn = "findHeading"
  /\ probe.lines = <<Str(<<"#", " ", "H">>), Str(<<"=", "=">>)>>
  /\ probe.start = 0
  /\ probe.result.found
  /\ probe.result.style = "Prefix"
  /\ probe.result.text = Str(<<"H">>)

\* the closing delimiters of a front matter: the indices j >= 1 of the lines
\* that are exactly '---', when line 0 is exactly '---'
ClosingDelimiters(lines) ==
  IF Len(lines) > 0 /\ lines[1] = Str(<<"-", "-", "-">>)
  THEN {j \in 1..(Len(lines) - 1) : lines[j + 1] = Str(<<"-", "-", "-">>)}
  ELSE {}

\* C8: findNoteStart(lines) is j+1 for the smallest closing delimiter j, and
\* 0 when there is none (an unclosed leading '---' is ordinary content); the
\* heading forceRenameFile works with is never a line of a closed front
\* matter nor one of its delimiters; the document
\* ['---','t: x','---','# Hello'] yields 'Hello' at line index 3.
C8_FrontmatterSkip ==
  /\ probe.fn = "findNoteStart" =>
       LET c == ClosingDelimiters(probe.lines)
       IN IF c = {}
          THEN probe.result = 0
          ELSE (probe.result - 1) \in c /\ \A j \in c : probe.result - 1 <= j
  /\ probe.fn = "HeadingOf" =>
       LET c == ClosingDelimiters(probe.lines)
       IN /\ (c # {} /\ probe.result.found) =>
               \E j \in c : (\A k \in c : j <= k) /\ probe.result.lineNumber > j
          /\ probe.lines = FrontmatterExample =>
               /\ probe.result.found
               /\ probe.result.text = Str(<<"H", "e", "l", "l", "o">>)
               /\ probe.result.lineNumber = 3

C8_Witness ==
  /\ probe.fn = "HeadingOf"
  /\ probe.lines = FrontmatterExample
  /\ probe.result.found
  /\ probe.result.lineNumber = 3

\* every character of a slug is a-z, 0-9 or a hyphen, and no two hyphens are
\* adjacent: what steps 5 to 7, applied in that order, leave
SlugShape(slug) ==
  /\ \A k \in DOMAIN slug :
       \/ slug[k] \in 97..122      \* a-z
       \/ slug[k] \in 48..57       \* 0-9
       \/ slug[k] = 45             \* hyphen
  /\ \A k \in 1..(Len(slug) - 1) : ~(slug[k] = 45 /\ slug[k + 1] = 45)

\* C9 as stated: slugify applied to 'Cafe(acute) (em dash) De(acute)ja(grave) Vu'
\* returns 'caf-deja-vu'.
C9_CafeSlugAsStated ==
  probe.fn = "slugify" =>
    /\ SlugShape(probe.result)
    /\ probe.text = Cafe =>
         probe.result = Str(<<"c", "a", "f", "-", "d", "e", "j", "a", "-", "v", "u">>)

\* C9 as amended: it returns 'cafe-deja-vu': the decomposition keeps the base
\* letter of each accented character and only the marks are removed.
C9_CafeSlug ==
  probe.fn = "slugify" =>
    /\ SlugShape(probe.result)
    /\ probe.text = Cafe =>
         probe.result = Str(<<"c", "a", "f", "e", "-", "d", "e", "j", "a", "-", "v", "u">>)

C9_Witness == probe.fn = "slugify" /\ probe.text = Cafe

\* C10: with useFileOpenHook on, opening an included markdown file whose
\* heading slug differs from its filename slug starts the synchronisation
\* (a forceRenameFile evaluation, whose rename follows); with it off, a
\* file-open event starts nothing.
C10_OpenHookSyncs ==
  [][(activeFile' # activeFile /\ activeFile' \in FileIds) =>
       LET f == activeFile'
           heading == HeadingOf(content[f])
           started == evals' = evals (+) One(Reading(f))
       IN /\ ( /\ settings.useFileOpenHook
               /\ CanStart
               /\ Extension(files[f]) = Str(<<"m", "d">>)
               /\ Truthy(fileIsIncluded(f, files[f]))
               /\ heading.found
               /\ slugify(heading.text) # <<>>
               /\ slugify(heading.text) # slugify(BaseName(files[f])) ) => started
          /\ ~settings.useFileOpenHook => evals' = evals]_vars
====
